---- MODULE Spec2Model ----
(***************************************************************************)
(* A model of the truck route planner front end (andrepombo/trucks-front): *)
(*   - api.ts (src/unnamed/part_000): planRoute, routeThroughStops         *)
(*   - App.tsx (src/src/App.tsx): toLatLngs, the stop deduplication and    *)
(*     the onSubmit handler with its request reconciliation                *)
(*   - CityAutocomplete.tsx (src/unnamed/part_002): the debounced lookup   *)
(*   - MapView.tsx (src/unnamed/part_001): the segment classifier          *)
(*                                                                         *)
(* Text is a sequence of one-character strings, so that template           *)
(* literals, String.slice and JSON.parse act on characters as they do in   *)
(* the program.  JavaScript values are tagged records [t, v].  Numbers are *)
(* fixed-point integers counting units of 10^-7, fine enough to see what    *)
(* Number.toFixed(6) rounds away.                                          *)
(***************************************************************************)
EXTENDS Integers, Sequences, FiniteSets, TLC

VARIABLES
    \* ---- api.ts: one call of planRoute / routeThroughStops
    apiFn,      \* which function is called
    apiNet,     \* what the transport delivers to that call
    apiOut,     \* the settled promise of the call, or NoOutcome while pending
    \* ---- App.tsx: component state (useState) and refs (useRef)
    start, finish, loading, error, route, stops, summary,
    abortRef,   \* 0 (null) or the index in calls of the controller it holds
    reqIdRef,
    calls,      \* the onSubmit invocations that reached the await, in order
    settled,    \* per call: the outcome its planRoute promise settled with
    aborted,    \* the calls whose AbortController has been aborted
    arrivals,   \* what the transport delivered, in order: [call, net]
    \* ---- CityAutocomplete.tsx: props, state and refs of one instance
    canAutocomplete,
    value, items, open, acLoading, acError,
    acRef,      \* 0 (null) or the index in lookups of the controller it holds
    debRef,     \* 0 (null) or the id of the timer set last
    hasCleanup, \* whether the effect that ran last returned its cleanup
    timers,     \* the pending timers of window.setTimeout: [id, due, q]
    lookups,    \* the timer callbacks that reached their fetch, in order
    lkSettled,  \* per lookup: whether its fetch has settled
    acAborted,  \* the lookups whose AbortController has been aborted
    now,        \* the clock, in the time-units of setTimeout
    changedAt,  \* the time of the last change of value
    \* ---- App.tsx: one call of toLatLngs
    geomIn,     \* its argument
    geomOut,    \* what it returned or threw, or NoOutcome before the call
    \* ---- App.tsx: one run of the stop mapping and deduplication
    stopsIn,    \* res.stops
    dedupOut,   \* Returned(dedup) or the error thrown, or NoOutcome before the run
    \* ---- MapView.tsx: one render, the classifier loop taken step by step
    baseRoute, mapRoute,    \* the props baseRoute and route
    mapI,       \* the loop variable i
    current, currentIsGreen, greenSegments, redSegments,
    emitted,    \* the segments pushed, in the order of the pushes: [green, seg]
    rendered,   \* whether the render is past the final flush
    \* ---- App.tsx: the onSubmit invocation that is running, statement by
    \* statement: [pc, ac, myId], pc = "idle" when none is running
    frame

apiVars == <<apiFn, apiNet, apiOut>>
appVars == <<start, finish, loading, error, route, stops, summary,
             abortRef, reqIdRef, calls, settled, aborted, arrivals>>
autoVars == <<canAutocomplete, value, items, open, acLoading, acError, acRef, debRef,
              hasCleanup, timers, lookups, lkSettled, acAborted, now, changedAt>>
geoVars == <<geomIn, geomOut>>
stopVars == <<stopsIn, dedupOut>>
mapVars == <<baseRoute, mapRoute, mapI, current, currentIsGreen, greenSegments,
             redSegments, emitted, rendered>>
\* the variables of the specifications of one function or one handler run
pureVars == <<geoVars, stopVars, mapVars, frame>>
vars == <<apiVars, appVars, autoVars, pureVars>>

-----------------------------------------------------------------------------
(* Bounds of the model                                                     *)

\* longest text drawn exhaustively over ShortAlphabet as a response body
MaxText == 3
\* number of plan requests issued in one run
MaxReq == 3
\* ... and in one run of the specification with fairness
MaxFairReq == 2
\* number of suggestion lookups issued in one run
MaxLookups == 2
\* the clock advances by TickLen, up to MaxTime
TickLen == 100
MaxTime == 500
\* points in a flat geometry payload, and in one line of a multi-part one
MaxPts == 2
\* lines in a multi-part geometry payload
MaxLines == 2
\* points of the route given to MapView
MaxRoute == 4
\* stops in a response
MaxStops == 3

-----------------------------------------------------------------------------
(* JavaScript values                                                       *)

Unit == 10 ^ 7

Undefined == [t |-> "undefined", v |-> 0]
Null == [t |-> "null", v |-> 0]
Bool(b) == [t |-> "boolean", v |-> b]
Num(n) == [t |-> "number", v |-> n]
Str(cs) == [t |-> "string", v |-> cs]
Arr(xs) == [t |-> "array", v |-> xs]
Obj(f) == [t |-> "object", v |-> f]

IsArray(x) == x.t = "array"
IsNumber(x) == x.t = "number"

\* x.key, for x neither null nor undefined
Get(x, key) ==
    IF x.t = "object" /\ key \in DOMAIN x.v THEN x.v[key] ELSE Undefined

\* ToBoolean
Truthy(x) ==
    CASE x.t \in {"undefined", "null"} -> FALSE
      [] x.t = "boolean" -> x.v
      [] x.t = "number" -> x.v # 0
      [] x.t = "string" -> x.v # <<>>
      [] OTHER -> TRUE

-----------------------------------------------------------------------------
(* Text                                                                    *)

Quote == "\""
DigitChars == <<"0", "1", "2", "3", "4", "5", "6", "7", "8", "9">>
Digits == {DigitChars[i] : i \in 1..10}
DigitVal(c) == (CHOOSE i \in 1..10 : DigitChars[i] = c) - 1

\* `${n}` for an integer n
RECURSIVE NatToText(_)
NatToText(n) ==
    IF n < 10 THEN <<DigitChars[n + 1]>>
    ELSE NatToText(n \div 10) \o <<DigitChars[(n % 10) + 1]>>
IntToText(n) == IF n < 0 THEN <<"-">> \o NatToText(-n) ELSE NatToText(n)

\* text.slice(0, n)
Slice0(text, n) == SubSeq(text, 1, IF Len(text) < n THEN Len(text) ELSE n)

\* text.startsWith(w, i) with i counted from 1
MatchAt(text, i, w) ==
    /\ i + Len(w) - 1 <= Len(text)
    /\ SubSeq(text, i, i + Len(w) - 1) = w

\* text.includes(w)
Includes(text, w) == \E i \in 1..(Len(text) + 1) : MatchAt(text, i, w)

\* c.repeat(n)
Repeat(c, n) == [i \in 1..n |-> c]

RECURSIVE Join(_, _)
Join(texts, sep) ==
    IF texts = <<>> THEN <<>>
    ELSE IF Len(texts) = 1 THEN texts[1]
    ELSE texts[1] \o sep \o Join(Tail(texts), sep)

\* JSON text as a server writes it: a string, a member, an object, an array
JStr(w) == <<Quote>> \o w \o <<Quote>>
JMember(key, text) == JStr(key) \o <<":">> \o text
JObject(members) == <<"{">> \o Join(members, <<",">>) \o <<"}">>
JArray(texts) == <<"[">> \o Join(texts, <<",">>) \o <<"]">>

-----------------------------------------------------------------------------
(* JSON.parse, for texts without white space, escapes, fractions and       *)
(* exponents.  A result is [ok, v, n]: whether a value was read, the value, *)
(* and the index after it.                                                 *)

At(text, i) == IF i \in 1..Len(text) THEN text[i] ELSE "EOF"
ParseFail == [ok |-> FALSE, v |-> Undefined, n |-> 0]
ParseOk(v, n) == [ok |-> TRUE, v |-> v, n |-> n]

RECURSIVE ParseDigits(_, _, _)
ParseDigits(text, i, acc) ==
    IF At(text, i) \in Digits
    THEN ParseDigits(text, i + 1, acc * 10 + DigitVal(text[i]))
    ELSE [v |-> acc, n |-> i]

\* number: -? (0 | [1-9][0-9]*)
ParseNumber(text, i) ==
    LET neg == At(text, i) = "-"
        j == IF neg THEN i + 1 ELSE i
    IN  IF At(text, j) \notin Digits THEN ParseFail
        ELSE IF text[j] = "0" THEN ParseOk(Num(0), j + 1)
        ELSE LET d == ParseDigits(text, j, 0)
             IN  ParseOk(Num((IF neg THEN -1 ELSE 1) * d.v * Unit), d.n)

\* index of the closing quote of the string opened before j, or 0
RECURSIVE ClosingQuote(_, _)
ClosingQuote(text, j) ==
    IF j > Len(text) THEN 0
    ELSE IF text[j] = Quote THEN j
    ELSE ClosingQuote(text, j + 1)

ParseString(text, i) ==
    LET j == ClosingQuote(text, i + 1)
    IN  IF At(text, i) # Quote \/ j = 0 THEN ParseFail
        ELSE ParseOk(Str(SubSeq(text, i + 1, j - 1)), j + 1)

WordTrue == <<"t", "r", "u", "e">>
WordFalse == <<"f", "a", "l", "s", "e">>
WordNull == <<"n", "u", "l", "l">>

RECURSIVE ParseValue(_, _)
RECURSIVE ParseElements(_, _, _)
RECURSIVE ParseMembers(_, _, _)

\* the elements of an array, the first at i; acc holds those already read
ParseElements(text, i, acc) ==
    LET e == ParseValue(text, i)
    IN  IF ~e.ok THEN ParseFail
        ELSE IF At(text, e.n) = "," THEN ParseElements(text, e.n + 1, Append(acc, e.v))
        ELSE IF At(text, e.n) = "]" THEN ParseOk(Arr(Append(acc, e.v)), e.n + 1)
        ELSE ParseFail

\* the members of an object, the first at i; a repeated key keeps the last value
ParseMembers(text, i, acc) ==
    LET k == ParseString(text, i)
    IN  IF ~k.ok \/ At(text, k.n) # ":" THEN ParseFail
        ELSE LET e == ParseValue(text, k.n + 1)
                 f == (k.v.v :> e.v) @@ acc
             IN  IF ~e.ok THEN ParseFail
                 ELSE IF At(text, e.n) = "," THEN ParseMembers(text, e.n + 1, f)
                 ELSE IF At(text, e.n) = "}" THEN ParseOk(Obj(f), e.n + 1)
                 ELSE ParseFail

ParseValue(text, i) ==
    LET c == At(text, i)
    IN  CASE c = "[" ->
               IF At(text, i + 1) = "]" THEN ParseOk(Arr(<<>>), i + 2)
               ELSE ParseElements(text, i + 1, <<>>)
          [] c = "{" ->
               IF At(text, i + 1) = "}" THEN ParseOk(Obj(<<>>), i + 2)
               ELSE ParseMembers(text, i + 1, <<>>)
          [] c = Quote -> ParseString(text, i)
          [] c = "-" \/ c \in Digits -> ParseNumber(text, i)
          [] c = "t" -> IF MatchAt(text, i, WordTrue) THEN ParseOk(Bool(TRUE), i + 4) ELSE ParseFail
          [] c = "f" -> IF MatchAt(text, i, WordFalse) THEN ParseOk(Bool(FALSE), i + 5) ELSE ParseFail
          [] c = "n" -> IF MatchAt(text, i, WordNull) THEN ParseOk(Null, i + 4) ELSE ParseFail
          [] OTHER -> ParseFail

\* JSON.parse(text): [ok |-> TRUE, v |-> value], or ok = FALSE where it throws
JSONParse(text) ==
    LET r == ParseValue(text, 1)
    IN  IF r.ok /\ r.n = Len(text) + 1 THEN r ELSE ParseFail

-----------------------------------------------------------------------------
(* api.ts                                                                  *)

\* What the transport delivers to one fetch: a response with its status and
\* body text, or a rejection (an aborted signal, a network failure).
NetResponse(status, text) ==
    [kind |-> "response", status |-> status, text |-> text, name |-> "", message |-> <<>>]
NetReject(name, message) ==
    [kind |-> "reject", status |-> 0, text |-> <<>>, name |-> name, message |-> message]

\* How an async call settles: it returns a value or throws an error.
NoOutcome == [tag |-> "pending", name |-> "", message |-> <<>>, value |-> Undefined]
Returned(v) == [tag |-> "return", name |-> "", message |-> <<>>, value |-> v]
Thrown(name, message) == [tag |-> "throw", name |-> name, message |-> message, value |-> Undefined]

\* String(err) of an error without a message
NameText(name) ==
    CASE name = "TypeError" -> <<"T", "y", "p", "e", "E", "r", "r", "o", "r">>
      [] name = "AbortError" -> <<"A", "b", "o", "r", "t", "E", "r", "r", "o", "r">>
      [] OTHER -> <<"E", "r", "r", "o", "r">>

\* err?.message || String(err)
ErrorText(out) == Str(IF out.message # <<>> THEN out.message ELSE NameText(out.name))

\* Response.ok
ResponseOk(status) == status \in 200..299

RequestFailedPrefix ==
    <<"R", "e", "q", "u", "e", "s", "t", " ", "f", "a", "i", "l", "e", "d", " ", "(">>
RequestFailedInfix == <<")", ":", " ">>
InvalidJSONPrefix ==
    <<"I", "n", "v", "a", "l", "i", "d", " ", "J", "S", "O", "N", " ",
      "r", "e", "s", "p", "o", "n", "s", "e", ":", " ">>
SliceLen == 200

RequestFailedMessage(status, text) ==
    RequestFailedPrefix \o IntToText(status) \o RequestFailedInfix \o text
InvalidJSONMessage(text) == InvalidJSONPrefix \o Slice0(text, SliceLen)

\* mutant: only 4xx and 5xx statuses are taken as failures
planRoute_from400(net) ==
    IF net.kind = "reject" THEN Thrown(net.name, net.message)
    ELSE IF net.status >= 400
    THEN Thrown("Error", RequestFailedMessage(net.status, net.text))
    ELSE LET p == JSONParse(net.text)
         IN  IF p.ok THEN Returned(p.v)
             ELSE Thrown("Error", InvalidJSONMessage(net.text))

\* mutant: the excerpt of an unparseable body is not cut
planRoute_noSlice(net) ==
    IF net.kind = "reject" THEN Thrown(net.name, net.message)
    ELSE IF ~ResponseOk(net.status)
    THEN Thrown("Error", RequestFailedMessage(net.status, net.text))
    ELSE LET p == JSONParse(net.text)
         IN  IF p.ok THEN Returned(p.v)
             ELSE Thrown("Error", InvalidJSONPrefix \o net.text)

planRoute(net) ==
    IF net.kind = "reject" THEN Thrown(net.name, net.message)
    ELSE IF ~ResponseOk(net.status)
    THEN Thrown("Error", RequestFailedMessage(net.status, net.text))
    ELSE LET p == JSONParse(net.text)
         IN  IF p.ok THEN Returned(p.v)
             ELSE Thrown("Error", InvalidJSONMessage(net.text))

routeThroughStops(net) ==
    IF net.kind = "reject" THEN Thrown(net.name, net.message)
    ELSE IF ~ResponseOk(net.status)
    THEN Thrown("Error", RequestFailedMessage(net.status, net.text))
    ELSE LET p == JSONParse(net.text)
         IN  IF p.ok THEN Returned(p.v)
             ELSE Thrown("Error", InvalidJSONMessage(net.text))

\* ---- the inputs of the api specification
Statuses == {200, 204, 299, 300, 404, 500}
ShortAlphabet == {"[", "]", "{", "}", ":", ",", Quote, "0", "x"}
ShortTexts == UNION {[1..n -> ShortAlphabet] : n \in 0..MaxText}

InternalError ==
    <<"i", "n", "t", "e", "r", "n", "a", "l", " ", "e", "r", "r", "o", "r">>
HtmlBody == <<"<", "h", "t", "m", "l", ">">>
AbortMessage ==
    <<"T", "h", "e", " ", "u", "s", "e", "r", " ", "a", "b", "o", "r", "t", "e", "d",
      " ", "a", " ", "r", "e", "q", "u", "e", "s", "t", ".">>
FetchFailedMessage ==
    <<"F", "a", "i", "l", "e", "d", " ", "t", "o", " ", "f", "e", "t", "c", "h">>

LongTexts ==
    { InternalError,
      <<Quote>> \o InternalError \o <<Quote>>,
      HtmlBody,
      Repeat("x", SliceLen - 1),
      Repeat("x", SliceLen),
      Repeat("x", SliceLen + 1),
      <<"1">> \o Repeat("x", SliceLen + 2) }

ApiNets ==
    {NetResponse(s, b) : s \in Statuses, b \in ShortTexts \cup LongTexts}
    \cup {NetReject("AbortError", AbortMessage), NetReject("TypeError", FetchFailedMessage)}

-----------------------------------------------------------------------------
(* Number to text.  A number is an integer count of 10^-7.                  *)

Abs(n) == IF n < 0 THEN -n ELSE n

\* the decimal digits of n, padded with zeros on the left to width
RECURSIVE Padded(_, _)
Padded(n, width) ==
    IF width = 0 THEN <<>>
    ELSE Padded(n \div 10, width - 1) \o <<DigitChars[(n % 10) + 1]>>

RECURSIVE StripZeros(_)
StripZeros(ds) ==
    IF ds # <<>> /\ ds[Len(ds)] = "0" THEN StripZeros(SubSeq(ds, 1, Len(ds) - 1)) ELSE ds

\* String(x) / `${x}` of a number; a magnitude below 10^-6 prints as d e-7
NumToText(n) ==
    LET a == Abs(n)
        frac == StripZeros(Padded(a % Unit, 7))
        sign == IF n < 0 THEN <<"-">> ELSE <<>>
    IN  IF a \in 1..9 THEN sign \o NatToText(a) \o <<"e", "-", "7">>
        ELSE sign \o NatToText(a \div Unit)
             \o (IF frac = <<>> THEN <<>> ELSE <<".">> \o frac)

\* x.toFixed(6): the magnitude rounded to 6 decimals, a tie rounded up
ToFixed6(n) ==
    LET r == (Abs(n) + 5) \div 10
    IN  (IF n < 0 THEN <<"-">> ELSE <<>>) \o NatToText(r \div (10 ^ 6))
        \o <<".">> \o Padded(r % (10 ^ 6), 6)

-----------------------------------------------------------------------------
(* App.tsx: toLatLngs                                                      *)

KeyCoordinates == <<"c", "o", "o", "r", "d", "i", "n", "a", "t", "e", "s">>
FilterNotFunction ==
    <<"c", "o", "o", "r", "d", "s", ".", "f", "i", "l", "t", "e", "r", " ", "i", "s",
      " ", "n", "o", "t", " ", "a", " ", "f", "u", "n", "c", "t", "i", "o", "n">>

\* xs[i] of a JavaScript array, with i counted from 1
Elem(xs, i) == IF i \in 1..Len(xs) THEN xs[i] ELSE Undefined

\* Array.isArray(pt) && pt.length >= 2
IsPoint(pt) == IsArray(pt) /\ Len(pt.v) >= 2

\* ([lon, lat]) => [lat, lon]
SwapLonLat(pt) == <<pt.v[2], pt.v[1]>>

MapSwap(pts) == [i \in 1..Len(pts) |-> SwapLonLat(pts[i])]

\* the points pushed to flat by the loop over the lines
RECURSIVE FlatOfLines(_)
FlatOfLines(lines) ==
    IF lines = <<>> THEN <<>>
    ELSE (IF IsArray(Head(lines)) THEN SelectSeq(Head(lines).v, IsPoint) ELSE <<>>)
         \o FlatOfLines(Tail(lines))

CoordinatesOfUndefined ==
    <<"C", "a", "n", "n", "o", "t", " ", "r", "e", "a", "d", " ", "p", "r", "o", "p",
      "e", "r", "t", "i", "e", "s", " ", "o", "f", " ", "u", "n", "d", "e", "f", "i",
      "n", "e", "d">>

\* mutant: no early return for a payload without coordinates
toLatLngs_noGuard(geometry) ==
    LET coords == Get(geometry, KeyCoordinates)
    IN  IF ~IsArray(coords) THEN Thrown("TypeError", CoordinatesOfUndefined)
        ELSE IF /\ IsArray(Elem(coords.v, 1))
                /\ IsArray(Elem(Elem(coords.v, 1).v, 1))
        THEN Returned(MapSwap(FlatOfLines(coords.v)))
        ELSE Returned(MapSwap(SelectSeq(coords.v, IsPoint)))

\* Returned(route) with route a sequence of <<lat, lon>>, or the TypeError
\* of calling filter on coordinates that are not an array
toLatLngs(geometry) ==
    IF ~Truthy(geometry) \/ ~Truthy(Get(geometry, KeyCoordinates)) THEN Returned(<<>>)
    ELSE LET coords == Get(geometry, KeyCoordinates)
         IN  IF ~IsArray(coords) THEN Thrown("TypeError", FilterNotFunction)
             ELSE IF /\ IsArray(Elem(coords.v, 1))
                     /\ IsArray(Elem(Elem(coords.v, 1).v, 1))
             THEN Returned(MapSwap(FlatOfLines(coords.v)))
             ELSE Returned(MapSwap(SelectSeq(coords.v, IsPoint)))

-----------------------------------------------------------------------------
(* App.tsx: the stops of a response and their deduplication                *)

KeyStationId == <<"s", "t", "a", "t", "i", "o", "n", "_", "i", "d">>
KeyLat == <<"l", "a", "t">>
KeyLon == <<"l", "o", "n">>
KeyCoord == <<"c", "o", "o", "r", "d">>
KeyName == <<"n", "a", "m", "e">>
KeyCity == <<"c", "i", "t", "y">>
KeyState == <<"s", "t", "a", "t", "e">>
KeyPrice == <<"p", "r", "i", "c", "e">>
KeyAddress == <<"a", "d", "d", "r", "e", "s", "s">>
KeyGallons ==
    <<"g", "a", "l", "l", "o", "n", "s", "_", "p", "u", "r", "c", "h", "a", "s", "e", "d">>
KeyCost == <<"c", "o", "s", "t">>
KeyMile == <<"m", "i", "l", "e", "_", "o", "n", "_", "r", "o", "u", "t", "e">>
NullStationIdMessage ==
    <<"C", "a", "n", "n", "o", "t", " ", "r", "e", "a", "d", " ", "p", "r", "o", "p",
      "e", "r", "t", "i", "e", "s", " ", "o", "f", " ", "n", "u", "l", "l", " ", "(",
      "r", "e", "a", "d", "i", "n", "g", " ", "'", "s", "t", "a", "t", "i", "o", "n",
      "_", "i", "d", "'", ")">>

\* typeof x === 'number' ? x : undefined
NumberOrUndefined(x) == IF IsNumber(x) THEN x ELSE Undefined

\* typeof s[key] === 'number' ? s[key] : Array.isArray(s.coord) ? s.coord[i] : undefined
CoordOf(s, key, i) ==
    IF IsNumber(Get(s, key)) THEN Get(s, key)
    ELSE IF IsArray(Get(s, KeyCoord)) THEN Elem(Get(s, KeyCoord).v, i)
    ELSE Undefined

\* the object res.stops.map builds of one element
StopPoint(s) ==
    [ station_id |-> NumberOrUndefined(Get(s, KeyStationId)),
      lat |-> CoordOf(s, KeyLat, 2),
      lon |-> CoordOf(s, KeyLon, 1),
      name |-> Get(s, KeyName),
      city |-> Get(s, KeyCity),
      state |-> Get(s, KeyState),
      price |-> NumberOrUndefined(Get(s, KeyPrice)),
      address |-> Get(s, KeyAddress),
      gallons_purchased |-> NumberOrUndefined(Get(s, KeyGallons)),
      cost |-> NumberOrUndefined(Get(s, KeyCost)),
      mile_on_route |-> NumberOrUndefined(Get(s, KeyMile)) ]

\* stopPts: reading a property of a null or undefined element throws
stopPts(resStops) ==
    IF ~IsArray(resStops) THEN Returned(<<>>)
    ELSE IF \E i \in 1..Len(resStops.v) : resStops.v[i].t \in {"null", "undefined"}
    THEN Thrown("TypeError", NullStationIdMessage)
    ELSE Returned([i \in 1..Len(resStops.v) |-> StopPoint(resStops.v[i])])

IdPrefix == <<"i", "d", ":">>
LlPrefix == <<"l", "l", ":">>

\* x?.toFixed?.(6) ?? ''
Fixed6OrEmpty(x) == IF IsNumber(x) THEN ToFixed6(x.v) ELSE <<>>

\* key
DedupKey(s) ==
    IF IsNumber(s.station_id) THEN IdPrefix \o NumToText(s.station_id.v)
    ELSE LlPrefix \o Fixed6OrEmpty(s.lat) \o <<",">> \o Fixed6OrEmpty(s.lon)

\* mutant: a repeated key takes the place of the record kept
RECURSIVE DedupLoop_lastWins(_, _, _)
DedupLoop_lastWins(pts, seen, dedup) ==
    IF pts = <<>> THEN dedup
    ELSE LET key == DedupKey(Head(pts))
         IN  IF key \notin seen
             THEN DedupLoop_lastWins(Tail(pts), seen \cup {key}, Append(dedup, Head(pts)))
             ELSE DedupLoop_lastWins(Tail(pts), seen,
                     [i \in 1..Len(dedup) |->
                         IF DedupKey(dedup[i]) = key THEN Head(pts) ELSE dedup[i]])

\* mutant: a key found in seen is taken out of it
RECURSIVE DedupLoop_forgets(_, _, _)
DedupLoop_forgets(pts, seen, dedup) ==
    IF pts = <<>> THEN dedup
    ELSE LET key == DedupKey(Head(pts))
         IN  IF key \notin seen
             THEN DedupLoop_forgets(Tail(pts), seen \cup {key}, Append(dedup, Head(pts)))
             ELSE DedupLoop_forgets(Tail(pts), seen \ {key}, dedup)

RECURSIVE DedupLoop(_, _, _)
DedupLoop(pts, seen, dedup) ==
    IF pts = <<>> THEN dedup
    ELSE LET key == DedupKey(Head(pts))
         IN  IF key \notin seen
             THEN DedupLoop(Tail(pts), seen \cup {key}, Append(dedup, Head(pts)))
             ELSE DedupLoop(Tail(pts), seen, dedup)

\* dedup
Dedup(pts) == DedupLoop(pts, {}, <<>>)

\* ---- no call of toLatLngs, no run of the deduplication, no render
GeoIdle == geomIn = Undefined /\ geomOut = NoOutcome
StopsIdle == stopsIn = Undefined /\ dedupOut = NoOutcome
MapIdle ==
    /\ baseRoute = <<>> /\ mapRoute = <<>>
    /\ mapI = 0
    /\ current = <<>> /\ currentIsGreen = FALSE
    /\ greenSegments = <<>> /\ redSegments = <<>>
    /\ emitted = <<>>
    /\ rendered = FALSE
FrameIdle == frame = [pc |-> "idle", ac |-> 0, myId |-> 0]
PureIdle == GeoIdle /\ StopsIdle /\ MapIdle /\ FrameIdle

-----------------------------------------------------------------------------
(* CityAutocomplete.tsx                                                    *)

DebounceMs == 200
MinQueryLen == 2

KeyResults == <<"r", "e", "s", "u", "l", "t", "s">>
KeyStateCode == <<"s", "t", "a", "t", "e", "_", "c", "o", "d", "e">>
KeyFormatted == <<"f", "o", "r", "m", "a", "t", "t", "e", "d">>
AutocompleteFailedPrefix ==
    <<"A", "u", "t", "o", "c", "o", "m", "p", "l", "e", "t", "e", " ", "f", "a", "i",
      "l", "e", "d", " ", "(">>
ObjectObject ==
    <<"[", "o", "b", "j", "e", "c", "t", " ", "O", "b", "j", "e", "c", "t", "]">>
NullCityMessage ==
    <<"C", "a", "n", "n", "o", "t", " ", "r", "e", "a", "d", " ", "p", "r", "o", "p",
      "e", "r", "t", "i", "e", "s", " ", "o", "f", " ", "n", "u", "l", "l", " ", "(",
      "r", "e", "a", "d", "i", "n", "g", " ", "'", "c", "i", "t", "y", "'", ")">>
JsonSyntaxMessage ==
    <<"U", "n", "e", "x", "p", "e", "c", "t", "e", "d", " ", "t", "o", "k", "e", "n">>

\* value.trim()
RECURSIVE TrimStart(_)
TrimStart(text) ==
    IF text # <<>> /\ Head(text) = " " THEN TrimStart(Tail(text)) ELSE text
RECURSIVE TrimEnd(_)
TrimEnd(text) ==
    IF text # <<>> /\ text[Len(text)] = " "
    THEN TrimEnd(SubSeq(text, 1, Len(text) - 1)) ELSE text
Trim(text) == TrimEnd(TrimStart(text))

\* a || b
Or(a, b) == IF Truthy(a) THEN a ELSE b

\* String(x), as Array.prototype.join turns an element into text
RECURSIVE TextOf(_)
TextOf(x) ==
    CASE x.t = "string" -> x.v
      [] x.t = "number" -> NumToText(x.v)
      [] x.t = "boolean" -> IF x.v THEN WordTrue ELSE WordFalse
      [] x.t = "array" -> Join([i \in 1..Len(x.v) |-> TextOf(x.v[i])], <<",">>)
      [] x.t = "object" -> ObjectObject
      [] OTHER -> <<>>

\* the label made of one result r (r is neither null nor undefined)
LabelOf(r) ==
    LET city == Or(Or(Get(r, KeyCity), Get(r, KeyName)), Str(<<>>))
        state == Or(Or(Get(r, KeyStateCode), Get(r, KeyState)), Str(<<>>))
        parts == SelectSeq(<<city, state>>, Truthy)
        joined == Str(Join([i \in 1..Len(parts) |-> TextOf(parts[i])], <<",", " ">>))
    IN  Or(joined, Or(Get(r, KeyFormatted), Str(<<>>)))

\* Array.from(new Set(labels)): the first occurrence of each label, in order
RECURSIVE UniqueLoop(_, _)
UniqueLoop(labels, acc) ==
    IF labels = <<>> THEN acc
    ELSE IF \E i \in 1..Len(acc) : acc[i] = Head(labels)
    THEN UniqueLoop(Tail(labels), acc)
    ELSE UniqueLoop(Tail(labels), Append(acc, Head(labels)))

\* unique, of the parsed body data; Thrown where reading r.city throws
unique(data) ==
    LET results == IF IsArray(Get(data, KeyResults)) THEN Get(data, KeyResults).v ELSE <<>>
    IN  IF \E i \in 1..Len(results) : results[i].t \in {"null", "undefined"}
        THEN Thrown("TypeError", NullCityMessage)
        ELSE LET labels == [i \in 1..Len(results) |-> LabelOf(results[i])]
                 mapped == SelectSeq(labels, Truthy)
                 uniq == UniqueLoop(mapped, <<>>)
             IN  Returned([i \in 1..Len(uniq) |-> [label |-> uniq[i]]])

\* The state [items, open, loading, error] that the timer callback leaves
\* from its await to its end, given the state before and what the transport
\* delivered to its fetch.

lookupResume(shown, net) ==
    LET done == [shown EXCEPT !.loading = FALSE]
        failed(out) == [done EXCEPT !.error = ErrorText(out), !.items = <<>>, !.open = FALSE]
    IN  IF net.kind = "reject"
        THEN IF net.name = "AbortError" THEN done
             ELSE failed(Thrown(net.name, net.message))
        ELSE IF ~ResponseOk(net.status)
        THEN failed(Thrown("Error", AutocompleteFailedPrefix \o IntToText(net.status)
                                     \o RequestFailedInfix \o net.text))
        ELSE LET p == JSONParse(net.text)
             IN  IF ~p.ok THEN failed(Thrown("SyntaxError", JsonSyntaxMessage))
                 ELSE LET u == unique(p.v)
                      IN  IF u.tag = "throw" THEN failed(u)
                          ELSE [done EXCEPT !.items = u.value, !.open = u.value # <<>>]

\* ---- what the geocoding service and the transport may answer

StateCO == <<"C", "O">>
InvalidKey == <<"I", "n", "v", "a", "l", "i", "d", " ", "A", "P", "I", " ", "k", "e", "y">>

\* the cities found for the query q: two records of the city q in CO, and a
\* record that has a formatted name only
ResultsBody(q) ==
    JObject(<<JMember(KeyResults, JArray(<<
        JObject(<<JMember(KeyCity, JStr(q)), JMember(KeyStateCode, JStr(StateCO))>>),
        JObject(<<JMember(KeyName, JStr(q)), JMember(KeyState, JStr(StateCO))>>),
        JObject(<<JMember(KeyFormatted, JStr(q))>>) >>))>>)
NoResultsBody == JObject(<<JMember(KeyResults, JArray(<<>>))>>)

\* the labels that ResultsBody(q) amounts to
LabelsOf(q) == << [label |-> Str(q \o <<",", " ">> \o StateCO)], [label |-> Str(q)] >>

\* what is typed or selected into the input
Values ==
    { <<>>, <<"D">>, <<"D", "e">>, <<"D", "e", " ">>, <<"D", "e", "n">>,
      <<"D", "e", ",", " ", "C", "O">> }
Queries == {Trim(v) : v \in Values}

LookupResponses ==
    [q \in Queries |->
        { NetResponse(200, ResultsBody(q)),
          NetResponse(200, NoResultsBody),
          NetResponse(200, HtmlBody),
          NetResponse(401, InvalidKey) }]

\* The transport may honour an abort or not: an aborted fetch may still be
\* answered.
LookupTransport(j) ==
    LookupResponses[lookups[j].q]
    \cup (IF j \in acAborted THEN {NetReject("AbortError", AbortMessage)} ELSE {})

\* ---- the component

\* the state after the mount: the effect has run once, for the empty value
AutoMounted ==
    /\ value = <<>>
    /\ items = <<>> /\ open = FALSE /\ acLoading = FALSE /\ acError = Null
    /\ acRef = 0 /\ debRef = 0 /\ hasCleanup = FALSE
    /\ timers = {} /\ lookups = <<>> /\ lkSettled = <<>> /\ acAborted = {}
    /\ now = 0 /\ changedAt = 0

AutoIdle == canAutocomplete = FALSE /\ AutoMounted

-----------------------------------------------------------------------------
(* App.tsx: onSubmit                                                       *)

KeyError == <<"e", "r", "r", "o", "r">>
KeyRoute == <<"r", "o", "u", "t", "e">>
KeyGeometry == <<"g", "e", "o", "m", "e", "t", "r", "y">>
KeyStops == <<"s", "t", "o", "p", "s">>
KeySummary == <<"s", "u", "m", "m", "a", "r", "y">>
ValidationMessage ==
    <<"P", "l", "e", "a", "s", "e", " ", "e", "n", "t", "e", "r", " ", "b", "o", "t",
      "h", " ", "S", "t", "a", "r", "t", " ", "a", "n", "d", " ", "F", "i", "n", "i",
      "s", "h", ".">>
NullErrorMessage ==
    <<"C", "a", "n", "n", "o", "t", " ", "r", "e", "a", "d", " ", "p", "r", "o", "p",
      "e", "r", "t", "i", "e", "s", " ", "o", "f", " ", "n", "u", "l", "l", " ", "(",
      "r", "e", "a", "d", "i", "n", "g", " ", "'", "e", "r", "r", "o", "r", "'", ")">>

\* The displayed state [error, route, stops, summary] that the lines after
\* the await leave, given the state shown before them, the outcome of
\* planRoute, the token myId of the call and the current reqIdRef.

\* mutant: a response is committed whatever its token
onSubmitResume_noTokenCheck(shown, out, myId, latest) ==
    IF out.tag = "throw" THEN [shown EXCEPT !.error = ErrorText(out)]
    ELSE LET res == out.value
         IN  IF res.t \in {"null", "undefined"}
             THEN [shown EXCEPT !.error = Str(NullErrorMessage)]
             ELSE LET s1 == IF Truthy(Get(res, KeyError))
                            THEN [shown EXCEPT !.error = Get(res, KeyError)]
                            ELSE shown
                      latlngs == toLatLngs(Get(Get(res, KeyRoute), KeyGeometry))
                      pts == stopPts(Get(res, KeyStops))
                  IN  IF latlngs.tag = "throw"
                      THEN [s1 EXCEPT !.error = ErrorText(latlngs)]
                      ELSE IF pts.tag = "throw"
                      THEN [s1 EXCEPT !.route = latlngs.value, !.error = ErrorText(pts)]
                      ELSE [s1 EXCEPT !.route = latlngs.value,
                                      !.stops = Dedup(pts.value),
                                      !.summary = IF Truthy(Get(res, KeySummary))
                                                  THEN Get(res, KeySummary) ELSE Null]

\* mutant: the token test is inverted, and failures of the call are swallowed
onSubmitResume_dropLatest(shown, out, myId, latest) ==
    IF out.tag = "throw" THEN shown
    ELSE LET res == out.value
         IN  IF res.t \in {"null", "undefined"}
             THEN [shown EXCEPT !.error = Str(NullErrorMessage)]
             ELSE LET s1 == IF Truthy(Get(res, KeyError))
                            THEN [shown EXCEPT !.error = Get(res, KeyError)]
                            ELSE shown
                      latlngs == toLatLngs(Get(Get(res, KeyRoute), KeyGeometry))
                      pts == stopPts(Get(res, KeyStops))
                  IN  IF latest = myId THEN s1
                      ELSE IF latlngs.tag = "throw"
                      THEN [s1 EXCEPT !.error = ErrorText(latlngs)]
                      ELSE IF pts.tag = "throw"
                      THEN [s1 EXCEPT !.route = latlngs.value, !.error = ErrorText(pts)]
                      ELSE [s1 EXCEPT !.route = latlngs.value,
                                      !.stops = Dedup(pts.value),
                                      !.summary = IF Truthy(Get(res, KeySummary))
                                                  THEN Get(res, KeySummary) ELSE Null]

onSubmitResume(shown, out, myId, latest) ==
    IF out.tag = "throw" THEN [shown EXCEPT !.error = ErrorText(out)]
    ELSE LET res == out.value
         IN  IF res.t \in {"null", "undefined"}
             THEN [shown EXCEPT !.error = Str(NullErrorMessage)]
             ELSE LET s1 == IF Truthy(Get(res, KeyError))
                            THEN [shown EXCEPT !.error = Get(res, KeyError)]
                            ELSE shown
                      latlngs == toLatLngs(Get(Get(res, KeyRoute), KeyGeometry))
                      pts == stopPts(Get(res, KeyStops))
                  IN  IF latest # myId THEN s1
                      ELSE IF latlngs.tag = "throw"
                      THEN [s1 EXCEPT !.error = ErrorText(latlngs)]
                      ELSE IF pts.tag = "throw"
                      THEN [s1 EXCEPT !.route = latlngs.value, !.error = ErrorText(pts)]
                      ELSE [s1 EXCEPT !.route = latlngs.value,
                                      !.stops = Dedup(pts.value),
                                      !.summary = IF Truthy(Get(res, KeySummary))
                                                  THEN Get(res, KeySummary) ELSE Null]

\* ---- what the backend and the transport may answer to the k-th call

KeyDistanceMiles ==
    <<"d", "i", "s", "t", "a", "n", "c", "e", "_", "m", "i", "l", "e", "s">>
NoRouteFound ==
    <<"n", "o", " ", "r", "o", "u", "t", "e", " ", "f", "o", "u", "n", "d">>

\* a plan for the k-th request: a line of two points at longitude k, two
\* records of the same station k, and a summary with distance k
StopBody(k, lat) ==
    JObject(<< JMember(KeyStationId, NatToText(k)),
               JMember(KeyLat, NatToText(lat)),
               JMember(KeyLon, NatToText(k)) >>)
OkBody(k) ==
    JObject(<<
      JMember(KeyRoute, JObject(<< JMember(KeyGeometry, JObject(<<
        JMember(KeyCoordinates, JArray(<< JArray(<<NatToText(k), <<"0">> >>),
                                          JArray(<<NatToText(k), <<"1">> >>) >>)) >>)) >>)),
      JMember(KeyStops, JArray(<<StopBody(k, 0), StopBody(k, 1)>>)),
      JMember(KeySummary, JObject(<<JMember(KeyDistanceMiles, NatToText(k))>>)) >>)
DomainErrorBody == JObject(<<JMember(KeyError, JStr(NoRouteFound))>>)

\* the responses the k-th call may get
Responses ==
    [k \in 1..MaxReq |->
        { NetResponse(200, OkBody(k)),
          NetResponse(200, DomainErrorBody),
          NetResponse(200, HtmlBody),
          NetResponse(200, WordNull),
          NetResponse(500, InternalError) }]
AbortRejection == NetReject("AbortError", AbortMessage)

\* ... to which is added, once its signal is aborted, the AbortError.  The
\* transport may honour an abort or not: an aborted call may still be
\* answered.
Transport(k) == Responses[k] \cup (IF k \in aborted THEN {AbortRejection} ELSE {})

\* await planRoute(body, ac.signal), for each thing the transport may deliver
PlanRouteOf ==
    [net \in (UNION {Responses[k] : k \in 1..MaxReq}) \cup {AbortRejection}
        |-> planRoute(net)]

\* ---- the component

City == <<"D", "e", "n", "v", "e", "r", ",", " ", "C", "O">>
Inputs == {<<>>, City}

AppInit ==
    /\ start = <<>> /\ finish = <<>>
    /\ loading = FALSE
    /\ error = Null
    /\ route = <<>> /\ stops = <<>>
    /\ summary = Null
    /\ abortRef = 0
    /\ reqIdRef = 0
    /\ calls = <<>> /\ settled = <<>> /\ aborted = {} /\ arrivals = <<>>

ApiIdle == apiFn = "none" /\ apiNet = NetReject("", <<>>) /\ apiOut = NoOutcome

\* onChange={setStart}
SetStart(v) ==
    /\ v # start
    /\ start' = v
    /\ UNCHANGED <<pureVars, apiVars, autoVars, finish, loading, error, route, stops, summary,
                   abortRef, reqIdRef, calls, settled, aborted, arrivals>>

\* onChange={setFinish}
SetFinish(v) ==
    /\ v # finish
    /\ finish' = v
    /\ UNCHANGED <<pureVars, apiVars, autoVars, start, loading, error, route, stops, summary,
                   abortRef, reqIdRef, calls, settled, aborted, arrivals>>

\* mutant: the validation is done after the request bookkeeping
OnSubmit_validateLate ==
    /\ summary' = Null /\ route' = <<>> /\ stops' = <<>>
    /\ Len(calls) < MaxReq
    /\ aborted' = IF abortRef # 0 THEN aborted \cup {abortRef} ELSE aborted
    /\ abortRef' = Len(calls) + 1
    /\ reqIdRef' = reqIdRef + 1
    /\ IF start = <<>> \/ finish = <<>>
       THEN /\ error' = Str(ValidationMessage)
            /\ UNCHANGED <<loading, calls, settled>>
       ELSE /\ error' = Null
            /\ calls' = Append(calls, [myId |-> reqIdRef + 1, ac |-> Len(calls) + 1,
                                       body |-> [start |-> start, finish |-> finish]])
            /\ settled' = Append(settled, NoOutcome)
            /\ loading' = TRUE
    /\ UNCHANGED <<pureVars, apiVars, autoVars, start, finish, arrivals>>

\* mutant: the token is captured and not stored
OnSubmit_noStore ==
    /\ summary' = Null /\ route' = <<>> /\ stops' = <<>>
    /\ IF start = <<>> \/ finish = <<>>
       THEN /\ error' = Str(ValidationMessage)
            /\ UNCHANGED <<loading, abortRef, reqIdRef, calls, settled, aborted>>
       ELSE /\ Len(calls) < MaxReq
            /\ error' = Null
            /\ aborted' = IF abortRef # 0 THEN aborted \cup {abortRef} ELSE aborted
            /\ abortRef' = Len(calls) + 1
            /\ reqIdRef' = reqIdRef
            /\ calls' = Append(calls, [myId |-> reqIdRef + 1, ac |-> Len(calls) + 1,
                                       body |-> [start |-> start, finish |-> finish]])
            /\ settled' = Append(settled, NoOutcome)
            /\ loading' = TRUE
    /\ UNCHANGED <<pureVars, apiVars, autoVars, start, finish, arrivals>>

\* onSubmit up to its await: the form is cleared and validated, the recorded
\* controller is aborted, a new one recorded, the token minted and the call
\* issued.  The controller of the k-th call is named k.
\* The handler has no guard of its own: `disabled={loading}` is on the button
\* that raises the event, not in onSubmit, so the handler is taken as it is
\* written, runnable while an earlier call is awaited.
OnSubmit ==
    /\ summary' = Null /\ route' = <<>> /\ stops' = <<>>
    /\ IF start = <<>> \/ finish = <<>>
       THEN /\ error' = Str(ValidationMessage)
            /\ UNCHANGED <<loading, abortRef, reqIdRef, calls, settled, aborted>>
       ELSE /\ Len(calls) < MaxReq
            /\ error' = Null
            /\ aborted' = IF abortRef # 0 THEN aborted \cup {abortRef} ELSE aborted
            /\ abortRef' = Len(calls) + 1
            /\ reqIdRef' = reqIdRef + 1
            /\ calls' = Append(calls, [myId |-> reqIdRef + 1, ac |-> Len(calls) + 1,
                                       body |-> [start |-> start, finish |-> finish]])
            /\ settled' = Append(settled, NoOutcome)
            /\ loading' = TRUE
    /\ UNCHANGED <<pureVars, apiVars, autoVars, start, finish, arrivals>>

\* The k-th call settles with what the transport delivers, and onSubmit runs
\* from its await to its end (try, catch, finally).
Complete(k) ==
    /\ k \in 1..Len(calls)
    /\ settled[k] = NoOutcome
    /\ \E net \in Transport(k) :
         /\ arrivals' = Append(arrivals, [call |-> k, net |-> net])
         /\ \E out \in {PlanRouteOf[net]} :
              /\ settled' = [settled EXCEPT ![k] = out]
              /\ \E after \in {onSubmitResume(
                                  [error |-> error, route |-> route,
                                   stops |-> stops, summary |-> summary],
                                  out, calls[k].myId, reqIdRef)} :
                   /\ error' = after.error
                   /\ route' = after.route
                   /\ stops' = after.stops
                   /\ summary' = after.summary
         /\ loading' = FALSE
    /\ UNCHANGED <<pureVars, apiVars, autoVars, start, finish, abortRef, reqIdRef, calls, aborted>>

AppNext ==
    \/ \E v \in Inputs : SetStart(v)
    \/ \E v \in Inputs : SetFinish(v)
    \/ OnSubmit
    \/ \E k \in 1..MaxReq : Complete(k)

\* the plan form, with the api variables at rest
Init == AppInit /\ ApiIdle /\ AutoIdle /\ PureIdle
Spec == Init /\ [][AppNext]_vars

\* ... with fewer calls, each of which is answered in the end
FairNext ==
    \/ \E v \in Inputs : SetStart(v)
    \/ \E v \in Inputs : SetFinish(v)
    \/ OnSubmit /\ Len(calls') <= MaxFairReq
    \/ \E k \in 1..MaxFairReq : Complete(k)
FairSpec == Init /\ [][FairNext]_vars /\ \A k \in 1..MaxFairReq : WF_vars(Complete(k))

\* ---- onSubmit up to its await, statement by statement.  JavaScript runs a
\* handler to its await without interleaving, so while frame.pc is not
\* "idle" no other handler takes a step.

\* lines 61-69: the form is cleared and validated
SubmitBegin ==
    /\ frame.pc = "idle"
    /\ summary' = Null /\ route' = <<>> /\ stops' = <<>>
    /\ IF start = <<>> \/ finish = <<>>
       THEN error' = Str(ValidationMessage) /\ UNCHANGED frame
       ELSE /\ Len(calls) < MaxReq
            /\ error' = Null
            /\ frame' = [frame EXCEPT !.pc = "abort"]
    /\ UNCHANGED <<geoVars, stopVars, mapVars, apiVars, autoVars, start, finish, loading,
                   abortRef, reqIdRef, calls, settled, aborted, arrivals>>

\* mutant: the recorded controller is left alone
StepAbort_skip ==
    /\ frame.pc = "abort"
    /\ frame' = [frame EXCEPT !.pc = "new"]
    /\ UNCHANGED <<geoVars, stopVars, mapVars, apiVars, autoVars, appVars>>

\* line 71: abortRef.current?.abort()
StepAbort ==
    /\ frame.pc = "abort"
    /\ aborted' = IF abortRef # 0 THEN aborted \cup {abortRef} ELSE aborted
    /\ frame' = [frame EXCEPT !.pc = "new"]
    /\ UNCHANGED <<geoVars, stopVars, mapVars, apiVars, autoVars, start, finish, loading,
                   error, route, stops, summary, abortRef, reqIdRef, calls, settled,
                   arrivals>>

\* lines 72-73: const ac = new AbortController(); abortRef.current = ac
StepRecord ==
    /\ frame.pc = "new"
    /\ abortRef' = Len(calls) + 1
    /\ frame' = [frame EXCEPT !.pc = "mint", !.ac = Len(calls) + 1]
    /\ UNCHANGED <<geoVars, stopVars, mapVars, apiVars, autoVars, start, finish, loading,
                   error, route, stops, summary, reqIdRef, calls, settled, aborted,
                   arrivals>>

\* line 74: const myId = ++reqIdRef.current
StepMint ==
    /\ frame.pc = "mint"
    /\ reqIdRef' = reqIdRef + 1
    /\ frame' = [frame EXCEPT !.pc = "call", !.myId = reqIdRef + 1]
    /\ UNCHANGED <<geoVars, stopVars, mapVars, apiVars, autoVars, start, finish, loading,
                   error, route, stops, summary, abortRef, calls, settled, aborted,
                   arrivals>>

\* lines 75-76: setLoading(true), and planRoute(body, ac.signal) is called;
\* the handler is suspended at its await
StepCall ==
    /\ frame.pc = "call"
    /\ loading' = TRUE
    /\ calls' = Append(calls, [myId |-> frame.myId, ac |-> frame.ac,
                               body |-> [start |-> start, finish |-> finish]])
    /\ settled' = Append(settled, NoOutcome)
    /\ frame' = [pc |-> "idle", ac |-> 0, myId |-> 0]
    /\ UNCHANGED <<geoVars, stopVars, mapVars, apiVars, autoVars, start, finish, error,
                   route, stops, summary, abortRef, reqIdRef, aborted, arrivals>>

StepNext ==
    \/ \E v \in Inputs : frame.pc = "idle" /\ SetStart(v)
    \/ \E v \in Inputs : frame.pc = "idle" /\ SetFinish(v)
    \/ SubmitBegin
    \/ StepAbort
    \/ StepRecord
    \/ StepMint
    \/ StepCall
    \/ \E k \in 1..MaxReq : frame.pc = "idle" /\ Complete(k)

\* the plan form, with onSubmit taken statement by statement
SpecSteps == Init /\ [][StepNext]_vars

-----------------------------------------------------------------------------
(* CityAutocomplete.tsx: the effect of [value], the timer and the lookup   *)

\* the timers left by window.clearTimeout(id)
ClearTimeout(ts, id) == {t \in ts : t.id # id}

\* the id window.setTimeout gives a new timer: one that no pending timer has
FreshTimerId(ts) == CHOOSE id \in 1..(Cardinality(ts) + 1) : \A t \in ts : t.id # id

\* the timers left by the cleanup of the effect that ran last
AfterCleanup == IF hasCleanup /\ debRef # 0 THEN ClearTimeout(timers, debRef) ELSE timers

\* mutant: the pending timer is not cleared when the value changes
Debounce_noClear(q) ==
    LET id == FreshTimerId(timers)
    IN  /\ timers' = timers \cup {[id |-> id, due |-> now + DebounceMs, q |-> q]}
        /\ debRef' = id
        /\ hasCleanup' = TRUE
        /\ UNCHANGED <<items, open, acLoading, acError, acRef, lookups, lkSettled, acAborted>>

\* the effect for a query of at least MinQueryLen characters: after the
\* cleanup of the effect before it, it clears the timer of debRef and sets
\* a new one
Debounce(q) ==
    LET left == IF debRef # 0 THEN ClearTimeout(AfterCleanup, debRef) ELSE AfterCleanup
        id == FreshTimerId(left)
    IN  /\ timers' = left \cup {[id |-> id, due |-> now + DebounceMs, q |-> q]}
        /\ debRef' = id
        /\ hasCleanup' = TRUE
        /\ UNCHANGED <<items, open, acLoading, acError, acRef, lookups, lkSettled, acAborted>>

\* mutant: a short query leaves the lookup in flight alone
SkipLookup_noAbort ==
    /\ items' = <<>> /\ open' = FALSE /\ acLoading' = FALSE /\ acError' = Null
    /\ timers' = AfterCleanup
    /\ hasCleanup' = FALSE
    /\ UNCHANGED <<acRef, debRef, lookups, lkSettled, acAborted>>

\* the effect for a query shorter than MinQueryLen, after the cleanup of the
\* effect before it
SkipLookup ==
    /\ items' = <<>> /\ open' = FALSE /\ acLoading' = FALSE /\ acError' = Null
    /\ acAborted' = IF acRef # 0 THEN acAborted \cup {acRef} ELSE acAborted
    /\ timers' = AfterCleanup
    /\ hasCleanup' = FALSE
    /\ UNCHANGED <<acRef, debRef, lookups, lkSettled>>

\* the value prop changes to v, and the effect of [value] runs
ValueChanged(v) ==
    /\ value' = v
    /\ changedAt' = now
    /\ IF ~canAutocomplete
       THEN UNCHANGED <<items, open, acLoading, acError, acRef, debRef, hasCleanup,
                        timers, lookups, lkSettled, acAborted>>
       ELSE IF Len(Trim(v)) < MinQueryLen THEN SkipLookup
       ELSE Debounce(Trim(v))
    /\ UNCHANGED <<pureVars, apiVars, appVars, canAutocomplete, now>>

\* onChange of the input
Type(v) == v # value /\ ValueChanged(v)

\* onMouseDown of the i-th suggestion
Select(i) ==
    /\ open
    /\ i \in 1..Len(items)
    /\ items[i].label.t = "string"
    /\ items[i].label.v # value
    /\ items[i].label.v \in Values
    /\ ValueChanged(items[i].label.v)

\* time passes
Tick ==
    /\ now + TickLen <= MaxTime
    /\ now' = now + TickLen
    /\ UNCHANGED <<pureVars, apiVars, appVars, canAutocomplete, value, items, open, acLoading,
                   acError, acRef, debRef, hasCleanup, timers, lookups, lkSettled,
                   acAborted, changedAt>>

\* The timer t fires: the callback aborts the recorded controller, records a
\* new one and issues the fetch for its query.  The controller of the j-th
\* lookup is named j.
TimerFires(t) ==
    /\ t \in timers
    /\ now >= t.due
    /\ Len(lookups) < MaxLookups
    /\ timers' = timers \ {t}
    /\ acAborted' = IF acRef # 0 THEN acAborted \cup {acRef} ELSE acAborted
    /\ acRef' = Len(lookups) + 1
    /\ acLoading' = TRUE
    /\ acError' = Null
    /\ lookups' = Append(lookups, [q |-> t.q, ac |-> Len(lookups) + 1, at |-> now])
    /\ lkSettled' = Append(lkSettled, FALSE)
    /\ UNCHANGED <<pureVars, apiVars, appVars, canAutocomplete, value, items, open, debRef,
                   hasCleanup, now, changedAt>>

\* The fetch of the j-th lookup settles, and the callback runs from its await
\* to its end (try, catch, finally).
LookupComplete(j) ==
    /\ j \in 1..Len(lookups)
    /\ ~lkSettled[j]
    /\ lkSettled' = [lkSettled EXCEPT ![j] = TRUE]
    /\ \E net \in LookupTransport(j) :
         \E after \in {lookupResume([items |-> items, open |-> open,
                                     loading |-> acLoading, error |-> acError], net)} :
            /\ items' = after.items
            /\ open' = after.open
            /\ acLoading' = after.loading
            /\ acError' = after.error
    /\ UNCHANGED <<pureVars, apiVars, appVars, canAutocomplete, value, acRef, debRef, hasCleanup,
                   timers, lookups, acAborted, now, changedAt>>

AutoInit == ApiIdle /\ AppInit /\ PureIdle /\ canAutocomplete \in BOOLEAN /\ AutoMounted

AutoNext ==
    \/ \E v \in Values : Type(v)
    \/ \E i \in 1..Len(items) : Select(i)
    \/ Tick
    \/ \E t \in timers : TimerFires(t)
    \/ \E j \in 1..MaxLookups : LookupComplete(j)

\* one city input, with the plan form and the api variables at rest
SpecAuto == AutoInit /\ [][AutoNext]_vars

-----------------------------------------------------------------------------
(* The request reconciler of the plan form: claims C1 to C5                *)

\* this step settles the k-th call: its response, failure or abort arrives
Settles(k) ==
    /\ k \in 1..Len(calls)
    /\ settled[k] = NoOutcome
    /\ settled'[k] # NoOutcome

\* what the transport delivered to the k-th call
NetOf(k) == arrivals[CHOOSE i \in 1..Len(arrivals) : arrivals[i].call = k].net

\* the displayed state that the plan OkBody(k) amounts to
PlanRoute(k) == << <<Num(0), Num(k * Unit)>>, <<Num(Unit), Num(k * Unit)>> >>
PlanSummary(k) == Obj(KeyDistanceMiles :> Num(k * Unit))
PlanStopsShown(k) ==
    /\ Len(stops) = 1
    /\ stops[1].station_id = Num(k * Unit)
    /\ stops[1].lat = Num(0)
    /\ stops[1].lon = Num(k * Unit)

\* some part of the displayed state comes from the plan of the k-th call
ShowsPlanOf(k) ==
    \/ route # <<>> /\ route[1][2] = Num(k * Unit)
    \/ stops # <<>> /\ stops[1].station_id = Num(k * Unit)
    \/ summary = PlanSummary(k)

\* C1: a response is committed to the displayed route, stops and summary only
\* if the token of its call equals reqIdRef when it arrives: the arrival of
\* a superseded call leaves the three unchanged, and the plan of a call gets
\* on display only by the arrival of that call while its token is the latest.
C1_OnlyLatestCommitted ==
    [][\A k \in 1..MaxReq :
         /\ (Settles(k) /\ calls[k].myId # reqIdRef)
               => UNCHANGED <<route, stops, summary>>
         /\ (ShowsPlanOf(k)' /\ ~ShowsPlanOf(k))
               => (Settles(k) /\ calls[k].myId = reqIdRef)]_vars

\* A and B are submitted, B's plan arrives, then A's plan arrives although A
\* was cancelled; B's plan is on display.
C1_Witness ==
    /\ Len(arrivals) = 2
    /\ arrivals[1] = [call |-> 2, net |-> NetResponse(200, OkBody(2))]
    /\ arrivals[2] = [call |-> 1, net |-> NetResponse(200, OkBody(1))]
    /\ 1 \in aborted
    /\ reqIdRef = 2
    /\ route = PlanRoute(2) /\ PlanStopsShown(2) /\ summary = PlanSummary(2)

\* C2: the arrival of a superseded call (its token differs from reqIdRef)
\* leaves the displayed error as it was, whatever the outcome.
C2_StaleKeepsError ==
    [][\A k \in 1..MaxReq :
         (Settles(k) /\ calls[k].myId # reqIdRef) => error' = error]_vars

\* C3: when a call whose controller was aborted rejects with the AbortError,
\* the message of that error is not put on display.
C3_AbortErrorNotShown ==
    [][\A k \in 1..MaxReq :
         (Settles(k) /\ k \in aborted /\ settled'[k].name = "AbortError")
            => error' # ErrorText(settled'[k])]_vars

\* the outcome of the k-th call is on display
Delivered(k) ==
    LET net == NetOf(k)
    IN  CASE net = NetResponse(200, OkBody(k)) ->
               route = PlanRoute(k) /\ PlanStopsShown(k) /\ summary = PlanSummary(k)
          [] net = NetResponse(200, DomainErrorBody) -> error = Str(NoRouteFound)
          [] net = NetResponse(200, HtmlBody) -> error = Str(InvalidJSONPrefix \o HtmlBody)
          [] net = NetResponse(500, InternalError) ->
               /\ error.t = "string"
               /\ Includes(error.v, IntToText(500))
               /\ Includes(error.v, InternalError)
          [] OTHER -> error.t = "string" /\ error.v # <<>> /\ error.v # ValidationMessage

\* C4: when the most recently issued call settles, its outcome is delivered:
\* its plan is committed, or its error is shown.  And, every call being
\* answered in the end, a call is superseded or its outcome gets delivered.
C4_LatestDelivered ==
    /\ [][\A k \in 1..MaxReq :
            (Settles(k) /\ calls[k].myId = reqIdRef) => Delivered(k)']_vars
    /\ \A k \in 1..MaxReq :
            (Len(calls) = k /\ settled[k] = NoOutcome)
               ~> \/ Len(calls) > k
                  \/ Len(calls) = k /\ settled[k] # NoOutcome /\ Delivered(k)

\* the latest call settled after an older one had been answered with an
\* error, and its plan is on display
C4_Witness ==
    /\ Len(calls) = 2 /\ Len(arrivals) = 2
    /\ arrivals[1].call = 1
    /\ arrivals[2] = [call |-> 2, net |-> NetResponse(200, OkBody(2))]
    /\ route = PlanRoute(2) /\ PlanStopsShown(2) /\ summary = PlanSummary(2)

\* C5: a submit with an empty start or finish shows the validation message
\* and issues no call, mints no token, and neither invokes nor replaces the
\* recorded controller.
C5_InvalidSubmitIssuesNothing ==
    [][(start = <<>> \/ finish = <<>>)
          => /\ UNCHANGED <<calls, settled, reqIdRef, abortRef, aborted>>
                \/ \E k \in 1..MaxReq : Settles(k) /\ UNCHANGED <<calls, reqIdRef, abortRef, aborted>>
             /\ OnSubmit => (error' = Str(ValidationMessage) /\ UNCHANGED loading)]_vars

\* the validation message is shown while the call issued before is still in
\* flight, its controller recorded and not aborted
C5_Witness ==
    /\ error = Str(ValidationMessage)
    /\ start = <<>>
    /\ abortRef = 1 /\ reqIdRef = 1 /\ Len(calls) = 1
    /\ settled[1] = NoOutcome
    /\ aborted = {}
    /\ loading

-----------------------------------------------------------------------------
(* The suggestion lookup of the city input: claims C6 to C8                *)

\* this step settles the fetch of the j-th lookup
LkSettles(j) ==
    /\ j \in 1..Len(lookups)
    /\ ~lkSettled[j]
    /\ lkSettled'[j]

\* C6: only the response of the most recently issued lookup is committed to
\* the suggestion list: when the fetch of an earlier lookup settles, also
\* one that was cancelled and is answered all the same, items stays as it is.
C6_OnlyLatestLookupCommitted ==
    [][\A j \in 1..MaxLookups :
         (LkSettles(j) /\ j # Len(lookups)) => items' = items]_vars

\* C7: at most one timer is pending, it is for the current trimmed input and
\* due a full DebounceMs after the last change of the input; a change of the
\* input restarts the wait; and a lookup is issued only when the input has
\* been unchanged for DebounceMs, for the input current at that time.
C7_Debounce ==
    /\ [](/\ Cardinality(timers) <= 1
          /\ \A t \in timers : t.q = Trim(value) /\ t.due = changedAt + DebounceMs)
    /\ [][/\ value' # value => \A t \in timers' : t.due = now + DebounceMs
          /\ Len(lookups') > Len(lookups)
                => /\ now >= changedAt + DebounceMs
                   /\ lookups'[Len(lookups')].q = Trim(value)
                   /\ timers' = {}]_vars

\* the input changed during the wait, and the one lookup issued since is
\* for the input as it is now, a full DebounceMs after that change
C7_Witness ==
    /\ Len(lookups) = 1
    /\ changedAt > 0
    /\ lookups[1].at >= changedAt + DebounceMs
    /\ value = <<"D", "e", "n">>
    /\ lookups[1].q = value
    /\ timers = {}

\* C8: when the trimmed input becomes shorter than MinQueryLen, the
\* suggestions are emptied, no timer stays pending, every lookup in flight
\* has its controller aborted, and no lookup is issued: neither by that
\* change nor for as long as the input stays that short.
C8_ShortInputSkipsLookup ==
    /\ [][(value' # value /\ Len(Trim(value')) < MinQueryLen)
             => /\ items' = <<>>
                /\ timers' = {}
                /\ lookups' = lookups
                /\ \A j \in 1..Len(lookups) : ~lkSettled[j] => j \in acAborted']_vars
    /\ [](Len(Trim(value)) < MinQueryLen => timers = {})
    /\ [][Len(Trim(value)) < MinQueryLen => lookups' = lookups]_vars

\* the input is short, and the only lookup ever issued is in flight with its
\* controller aborted: by the effect, as no later lookup was issued
C8_Witness ==
    /\ canAutocomplete
    /\ Len(Trim(value)) < MinQueryLen
    /\ Len(lookups) = 1
    /\ ~lkSettled[1]
    /\ 1 \in acAborted
    /\ items = <<>> /\ timers = {}

-----------------------------------------------------------------------------
(* api.ts as a function of what the transport delivers: claims C9 and C10  *)

ApiInit ==
    /\ apiFn \in {"planRoute", "routeThroughStops"}
    /\ apiNet \in ApiNets
    /\ apiOut = NoOutcome
    /\ AppInit /\ AutoIdle /\ PureIdle

CallPlanRoute ==
    /\ apiFn = "planRoute"
    /\ apiOut = NoOutcome
    /\ apiOut' = planRoute(apiNet)
    /\ UNCHANGED <<pureVars, apiFn, apiNet, appVars, autoVars>>

CallRouteThroughStops ==
    /\ apiFn = "routeThroughStops"
    /\ apiOut = NoOutcome
    /\ apiOut' = routeThroughStops(apiNet)
    /\ UNCHANGED <<pureVars, apiFn, apiNet, appVars, autoVars>>

ApiNext == CallPlanRoute \/ CallRouteThroughStops

SpecApi == ApiInit /\ [][ApiNext]_vars

\* C9: a response whose status is not 2xx makes planRoute and
\* routeThroughStops throw an error whose message contains the status code
\* and the whole body text, whether or not the body is JSON.
C9_HttpFailureThrows ==
    (/\ apiOut # NoOutcome
     /\ apiNet.kind = "response"
     /\ apiNet.status \notin 200..299)
       => /\ apiOut.tag = "throw"
          /\ Includes(apiOut.message, IntToText(apiNet.status))
          /\ Includes(apiOut.message, apiNet.text)

\* status 500 with a body that is JSON: routeThroughStops has thrown
C9_Witness ==
    /\ apiFn = "routeThroughStops"
    /\ apiNet = NetResponse(500, <<Quote>> \o InternalError \o <<Quote>>)
    /\ JSONParse(apiNet.text).ok
    /\ apiOut.tag = "throw"
    /\ apiOut.message = RequestFailedPrefix \o <<"5", "0", "0">> \o RequestFailedInfix
                           \o apiNet.text

\* C10: a 2xx response whose body is not JSON makes planRoute and
\* routeThroughStops throw an error whose message is not that of a failed
\* status: it is the parse-error prefix followed by the first 200 characters
\* of the body, or by the whole body if that is shorter.
C10_ParseFailureThrows ==
    (/\ apiOut # NoOutcome
     /\ apiNet.kind = "response"
     /\ apiNet.status \in 200..299
     /\ ~JSONParse(apiNet.text).ok)
       => /\ apiOut.tag = "throw"
          /\ MatchAt(apiOut.message, 1, InvalidJSONPrefix)
          /\ ~MatchAt(apiOut.message, 1, RequestFailedPrefix)
          /\ LET excerpt == SubSeq(apiOut.message, Len(InvalidJSONPrefix) + 1,
                                   Len(apiOut.message))
             IN  /\ Len(excerpt) <= 200
                 /\ Len(excerpt) = (IF Len(apiNet.text) < 200 THEN Len(apiNet.text) ELSE 200)
                 /\ excerpt = SubSeq(apiNet.text, 1, Len(excerpt))

\* a body of 201 characters that is not JSON: planRoute has thrown with the
\* first 200 of them
C10_Witness ==
    /\ apiFn = "planRoute"
    /\ apiNet = NetResponse(200, Repeat("x", 201))
    /\ apiOut.tag = "throw"
    /\ apiOut.message = InvalidJSONPrefix \o Repeat("x", 200)

-----------------------------------------------------------------------------
(* toLatLngs as a function of the geometry of a response: claims C11 to C13 *)

\* ---- the geometries a response may carry

N(k) == Num(k * Unit)
TextX == Str(<<"x">>)
KeyType == <<"t", "y", "p", "e">>
LineString == Str(<<"L", "i", "n", "e", "S", "t", "r", "i", "n", "g">>)

\* [lon, lat] pairs, one with an altitude
GoodPoints == {Arr(<<N(1), N(2)>>), Arr(<<N(3), N(4)>>), Arr(<<N(5), N(6), N(7)>>)}
\* elements that are no point: too short, not numeric, not an array
BadPoints ==
    {Arr(<<>>), Arr(<<N(1)>>), Arr(<<TextX, N(2)>>), Arr(<<N(1), Null>>), Null, TextX}
LinePoints == {Arr(<<N(1), N(2)>>), Arr(<<N(3), N(4)>>), Arr(<<N(1)>>), Arr(<<TextX, N(2)>>)}

\* the sequences over S of length lo to hi
SeqsOf(S, lo, hi) == UNION {[1..n -> S] : n \in lo..hi}

FlatCoords == {Arr(pts) : pts \in SeqsOf(GoodPoints \cup BadPoints, 0, MaxPts)}
Lines == {Arr(pts) : pts \in SeqsOf(LinePoints, 0, MaxPts)} \cup {Null}
MultiCoords == {Arr(ls) : ls \in SeqsOf(Lines, 1, MaxLines)}
OtherCoords == {Null, TextX, N(5), Obj(<<>>)}

Geometries ==
    {Undefined, Null, Obj(<<>>), Obj(KeyType :> LineString)}
    \cup {Obj(KeyCoordinates :> c) : c \in FlatCoords \cup MultiCoords \cup OtherCoords}

\* ---- the call

GeoInit ==
    /\ geomIn \in Geometries
    /\ geomOut = NoOutcome
    /\ AppInit /\ ApiIdle /\ AutoIdle /\ StopsIdle /\ MapIdle /\ FrameIdle

CallToLatLngs ==
    /\ geomOut.tag = "pending"
    /\ geomOut' = toLatLngs(geomIn)
    /\ UNCHANGED <<geomIn, frame, stopVars, mapVars, apiVars, appVars, autoVars>>

GeoNext == CallToLatLngs

SpecGeo == GeoInit /\ [][GeoNext]_vars

\* ---- what the specification of the normalizer says of a payload

\* a point with at least two components, the first two of them numbers
HasTwoNumbers(pt) ==
    /\ IsArray(pt)
    /\ Len(pt.v) >= 2
    /\ IsNumber(pt.v[1]) /\ IsNumber(pt.v[2])

\* multi-part: the first element's first element is itself a sequence
NestedShape(c) ==
    /\ c.v # <<>>
    /\ IsArray(c.v[1])
    /\ c.v[1].v # <<>>
    /\ IsArray(c.v[1].v[1])

\* the elements of all lines, in outer order
RECURSIVE PointsOfLines(_)
PointsOfLines(ls) ==
    IF ls = <<>> THEN <<>>
    ELSE (IF IsArray(Head(ls)) THEN Head(ls).v ELSE <<>>) \o PointsOfLines(Tail(ls))

SourcePoints(c) == IF NestedShape(c) THEN PointsOfLines(c.v) ELSE c.v

\* (second component, first component) of each point
Swapped(pts) == [i \in 1..Len(pts) |-> <<pts[i].v[2], pts[i].v[1]>>]

\* a list of one or more lines, each a list of [lon, lat] pairs of numbers
WellFormedMulti(c) ==
    /\ IsArray(c)
    /\ Len(c.v) >= 1
    /\ \A i \in 1..Len(c.v) :
          /\ IsArray(c.v[i])
          /\ \A j \in 1..Len(c.v[i].v) :
                HasTwoNumbers(c.v[i].v[j]) /\ Len(c.v[i].v[j].v) = 2

\* a === b for primitives, and the same elements or members for arrays and objects
RECURSIVE SameValue(_, _)
SameValue(a, b) ==
    /\ a.t = b.t
    /\ CASE a.t = "array" ->
              /\ Len(a.v) = Len(b.v)
              /\ \A i \in 1..Len(a.v) : SameValue(a.v[i], b.v[i])
         [] a.t = "object" ->
              /\ DOMAIN a.v = DOMAIN b.v
              /\ \A k \in DOMAIN a.v : SameValue(a.v[k], b.v[k])
         [] a.t \in {"number", "string", "boolean"} -> a.v = b.v
         [] OTHER -> TRUE

\* the outcome is the route e returned
ReturnsRoute(out, e) ==
    /\ out.tag = "return"
    /\ Len(out.value) = Len(e)
    /\ \A i \in 1..Len(e) :
          SameValue(out.value[i][1], e[i][1]) /\ SameValue(out.value[i][2], e[i][2])

\* C11: for a payload with a list of coordinates, flat or multi-part, the
\* route returned is made of the source points that have two numeric
\* components, in order, each as (second component, first component);
\* the other points are skipped.
C11_OnlyNumericPointsKept ==
    (geomOut.tag # "pending" /\ IsArray(Get(geomIn, KeyCoordinates)))
       => ReturnsRoute(geomOut, Swapped(SelectSeq(SourcePoints(Get(geomIn, KeyCoordinates)),
                                                  HasTwoNumbers)))

\* C12: for a multi-part payload, its first line empty or not, the route
\* returned is the concatenation of the points of all lines in outer order,
\* each as a (lat, lon) pair of numbers.
C12_MultiPartConcatenated ==
    (geomOut.tag # "pending" /\ WellFormedMulti(Get(geomIn, KeyCoordinates)))
       => /\ ReturnsRoute(geomOut, Swapped(PointsOfLines(Get(geomIn, KeyCoordinates).v)))
          /\ \A i \in 1..Len(geomOut.value) :
                IsNumber(geomOut.value[i][1]) /\ IsNumber(geomOut.value[i][2])

\* C13: the empty route is returned, and nothing thrown, for an absent
\* payload, for one without coordinates and for an empty list of coordinates.
C13_EmptyForNoCoordinates ==
    (/\ geomOut.tag # "pending"
     /\ \/ geomIn.t \in {"undefined", "null"}
        \/ geomIn.t = "object" /\ KeyCoordinates \notin DOMAIN geomIn.v
        \/ IsArray(Get(geomIn, KeyCoordinates)) /\ Get(geomIn, KeyCoordinates).v = <<>>)
       => geomOut.tag = "return" /\ geomOut.value = <<>>

\* called with an empty list of coordinates, toLatLngs has returned []
C13_Witness ==
    /\ geomIn = Obj(KeyCoordinates :> Arr(<<>>))
    /\ geomOut.tag = "return" /\ geomOut.value = <<>>

-----------------------------------------------------------------------------
(* MapView.tsx: the segment classifier                                     *)

\* A point is <<lat, lon>>, each an integer count of 10^-7 degrees.  The
\* props baseRoute and route are sequences of points; a prop left undefined
\* is the empty sequence, which the component treats as it treats [].

\* 0.0005 * 0.0005
GREEN_THRESHOLD_DEG2 == 5000 * 5000

\* Number.POSITIVE_INFINITY, and a finite number
Infinity == [inf |-> TRUE, d |-> 0]
Finite(n) == [inf |-> FALSE, d |-> n]
\* a < b
LessThan(a, b) == ~a.inf /\ (b.inf \/ a.d < b.d)
\* a <= n, for a finite n
AtMost(a, n) == ~a.inf /\ a.d <= n

\* null is the empty sequence: a route that is kept has two points or more
base == IF Len(baseRoute) > 1 THEN baseRoute ELSE <<>>
detour == IF Len(mapRoute) > 1 THEN mapRoute ELSE <<>>

dist2(a, b) ==
    LET dx == a[1] - b[1]
        dy == a[2] - b[2]
    IN  dx * dx + dy * dy

\* the loop of minDist2ToBase from index i (counted from 1) with best so far
RECURSIVE MinLoop(_, _, _)
MinLoop(p, i, best) ==
    IF i > Len(base) THEN best
    ELSE LET d2 == Finite(dist2(p, base[i]))
         IN  MinLoop(p, i + 1, IF LessThan(d2, best) THEN d2 ELSE best)

minDist2ToBase(p) ==
    IF base = <<>> THEN Infinity ELSE MinLoop(p, 1, Infinity)

\* mutant: a point at the threshold is far
near_strict(pt) ==
    LET m == minDist2ToBase(pt) IN ~m.inf /\ m.d < GREEN_THRESHOLD_DEG2

\* near, for the point pt
near(pt) == AtMost(minDist2ToBase(pt), GREEN_THRESHOLD_DEG2)

\* mutant: the two lists are taken one for the other
PushCurrent_swapped ==
    IF Len(current) > 1
    THEN /\ emitted' = Append(emitted, [green |-> currentIsGreen, seg |-> current])
         /\ IF currentIsGreen
            THEN redSegments' = Append(redSegments, current) /\ UNCHANGED greenSegments
            ELSE greenSegments' = Append(greenSegments, current) /\ UNCHANGED redSegments
    ELSE UNCHANGED <<greenSegments, redSegments, emitted>>

\* mutant: a run is pushed whatever its length
PushCurrent_anyLength ==
    /\ emitted' = Append(emitted, [green |-> currentIsGreen, seg |-> current])
    /\ IF currentIsGreen
       THEN greenSegments' = Append(greenSegments, current) /\ UNCHANGED redSegments
       ELSE redSegments' = Append(redSegments, current) /\ UNCHANGED greenSegments

\* if (current.length > 1) { if (currentIsGreen) greenSegments.push(current)
\*                           else redSegments.push(current) }
PushCurrent ==
    IF Len(current) > 1
    THEN /\ emitted' = Append(emitted, [green |-> currentIsGreen, seg |-> current])
         /\ IF currentIsGreen
            THEN greenSegments' = Append(greenSegments, current) /\ UNCHANGED redSegments
            ELSE redSegments' = Append(redSegments, current) /\ UNCHANGED greenSegments
    ELSE UNCHANGED <<greenSegments, redSegments, emitted>>

\* mutant: the new run starts at the current point
NewRun_noPrevious(prev, pt) == <<pt>>

\* [detour[i - 1], pt]
NewRun(prev, pt) == <<prev, pt>>

\* one iteration of the loop over detour; mapI is i, and indices count from 1
LoopStep ==
    /\ ~rendered
    /\ detour # <<>> /\ base # <<>>
    /\ mapI < Len(detour)
    /\ LET pt == detour[mapI + 1]
       IN  IF mapI = 0
           THEN /\ currentIsGreen' = near(pt)
                /\ current' = Append(current, pt)
                /\ UNCHANGED <<greenSegments, redSegments, emitted>>
           ELSE IF near(pt) = currentIsGreen
           THEN /\ current' = Append(current, pt)
                /\ UNCHANGED <<currentIsGreen, greenSegments, redSegments, emitted>>
           ELSE /\ PushCurrent
                /\ current' = NewRun(detour[mapI], pt)
                /\ currentIsGreen' = near(pt)
    /\ mapI' = mapI + 1
    /\ UNCHANGED <<baseRoute, mapRoute, rendered, frame, geoVars, stopVars, apiVars, appVars,
                   autoVars>>

\* the end of the classification: the last run is pushed after the loop, or
\* nothing is done for want of a base or a detour
Flush ==
    /\ ~rendered
    /\ IF detour # <<>> /\ base # <<>>
       THEN mapI = Len(detour) /\ PushCurrent
       ELSE UNCHANGED <<greenSegments, redSegments, emitted>>
    /\ rendered' = TRUE
    /\ UNCHANGED <<baseRoute, mapRoute, mapI, current, currentIsGreen, frame, geoVars, stopVars,
                   apiVars, appVars, autoVars>>

\* ---- the routes given to MapView

PointA == <<0, 0>>
\* at the threshold from PointA
PointB == <<0, 5000>>
PointC == <<0, 20000>>
PointD == <<3000, 24000>>
RoutePoints == {PointA, PointB, PointC, PointD}
Routes == SeqsOf(RoutePoints, 0, MaxRoute)
BaseRoutes ==
    {<<>>, <<PointA>>, <<PointA, PointA>>, <<PointA, PointB>>, <<PointC, PointD>>}

MapInit ==
    /\ mapRoute \in Routes
    /\ baseRoute \in BaseRoutes \cup {mapRoute}
    /\ mapI = 0
    /\ current = <<>> /\ currentIsGreen = FALSE
    /\ greenSegments = <<>> /\ redSegments = <<>>
    /\ emitted = <<>>
    /\ rendered = FALSE
    /\ AppInit /\ ApiIdle /\ AutoIdle /\ GeoIdle /\ StopsIdle /\ FrameIdle

MapNext == LoopStep \/ Flush

SpecMap == MapInit /\ [][MapNext]_vars

\* ---- claims C14 to C17

\* p is within 0.0005 degrees of some point of the base route
WithinThreshold(p) ==
    \E i \in 1..Len(baseRoute) :
       (p[1] - baseRoute[i][1]) * (p[1] - baseRoute[i][1])
         + (p[2] - baseRoute[i][2]) * (p[2] - baseRoute[i][2]) <= 5000 * 5000

\* the segments joined in order, the first point of each but the first
\* dropped
RECURSIVE Glue(_)
Glue(segs) ==
    IF segs = <<>> THEN <<>>
    ELSE IF Len(segs) = 1 THEN segs[1].seg
    ELSE Glue(SubSeq(segs, 1, Len(segs) - 1)) \o Tail(segs[Len(segs)].seg)

\* the segments pushed so far that have the label g, in order
SegmentsOf(g) ==
    LET sel == SelectSeq(emitted, LAMBDA e : e.green = g)
    IN  [k \in 1..Len(sel) |-> sel[k].seg]

\* C14: a route of two points or more classified against itself gives one
\* on-route segment, the whole route, and no detour segment.
C14_SelfIsOneOnRouteSegment ==
    (rendered /\ baseRoute = mapRoute /\ Len(mapRoute) >= 2)
       => greenSegments = <<mapRoute>> /\ redSegments = <<>>

\* a route whose points are far from one another, classified against itself
C14_Witness ==
    /\ rendered
    /\ mapRoute = <<PointA, PointC, PointD, PointA>>
    /\ baseRoute = mapRoute
    /\ greenSegments = <<mapRoute>>

\* C15: no segment pushed has fewer than 2 points, and of two segments
\* pushed one after the other, which have opposite labels, the second
\* starts with the last point of the first.
C15_NoShortSegmentSharedBoundary ==
    /\ greenSegments = SegmentsOf(TRUE) /\ redSegments = SegmentsOf(FALSE)
    /\ \A k \in 1..Len(emitted) : Len(emitted[k].seg) >= 2
    /\ \A k \in 1..(Len(emitted) - 1) :
          /\ emitted[k].green # emitted[k + 1].green
          /\ emitted[k].seg[Len(emitted[k].seg)] = emitted[k + 1].seg[1]

\* three runs were pushed, of both labels
C15_Witness ==
    /\ rendered
    /\ Len(emitted) = 3
    /\ greenSegments # <<>> /\ redSegments # <<>>

\* C16: for a base and a detour of 2 points or more, the segments pushed,
\* joined in the order of their runs with each repeated boundary point
\* dropped, are the detour route: no point is missing, and two segments
\* overlap in their shared boundary point only.
C16_SegmentsPartitionDetour ==
    (rendered /\ Len(baseRoute) >= 2 /\ Len(mapRoute) >= 2)
       => /\ Glue(emitted) = mapRoute
          /\ \A k \in 1..Len(emitted) : Len(emitted[k].seg) >= 2

\* the first run was a single point, and was not pushed
C16_Witness ==
    /\ rendered
    /\ Len(baseRoute) >= 2
    /\ Len(mapRoute) = MaxRoute
    /\ WithinThreshold(mapRoute[1]) # WithinThreshold(mapRoute[2])
    /\ Len(emitted) = 2
    /\ Glue(emitted) = mapRoute

\* C17 as stated: every point of an on-route segment is near the base and
\* every point of a detour segment is far from it.
C17_AllPointsMatchLabel ==
    \A k \in 1..Len(emitted) :
       \A j \in 1..Len(emitted[k].seg) :
          WithinThreshold(emitted[k].seg[j]) = emitted[k].green

\* C17 amended: every point of a segment but its first is near the base in
\* an on-route segment and far from it in a detour segment.  The first
\* point is so too in a first run of 2 points or more; in every other
\* segment it is the boundary point taken from the run before, and has the
\* opposite classification.
C17_PointsAfterBoundaryMatchLabel ==
    \A k \in 1..Len(emitted) :
       /\ \A j \in 2..Len(emitted[k].seg) :
             WithinThreshold(emitted[k].seg[j]) = emitted[k].green
       /\ (WithinThreshold(emitted[k].seg[1]) = emitted[k].green)
             <=> (k = 1 /\ WithinThreshold(mapRoute[1]) = WithinThreshold(mapRoute[2]))

\* an on-route segment that starts with the far point before it and holds
\* a point at the threshold
C17_Witness ==
    /\ rendered
    /\ baseRoute = <<PointA, PointA>>
    /\ emitted = <<[green |-> TRUE, seg |-> <<PointC, PointB, PointA>>]>>

-----------------------------------------------------------------------------
(* The stops of a response, mapped and deduplicated: claims C18 to C20     *)

\* ---- the stops a response may carry

\* 10^-7, the seventh decimal
Tiny == Unit \div (10 ^ 7)
TextA == Str(<<"a">>)
TextB == Str(<<"b">>)

StopRecords ==
    { \* the same station twice, at different places
      Obj((KeyStationId :> N(1)) @@ (KeyLat :> N(1)) @@ (KeyLon :> N(2)) @@ (KeyName :> TextA)),
      Obj((KeyStationId :> N(1)) @@ (KeyLat :> N(3)) @@ (KeyLon :> N(4)) @@ (KeyName :> TextB)),
      \* another station at the first place
      Obj((KeyStationId :> N(2)) @@ (KeyLat :> N(1)) @@ (KeyLon :> N(2))),
      \* no station_id, or one that is no number, at the first place
      Obj((KeyLat :> N(1)) @@ (KeyLon :> N(2))),
      Obj((KeyStationId :> Str(<<"1">>)) @@ (KeyLat :> N(1)) @@ (KeyLon :> N(2))),
      Obj(KeyCoord :> Arr(<<N(2), N(1)>>)),
      \* next to the first place: the same, and not the same, at 6 decimals
      Obj((KeyLat :> Num(Unit + 4 * Tiny)) @@ (KeyLon :> N(2))),
      Obj((KeyLat :> Num(Unit + 6 * Tiny)) @@ (KeyLon :> N(2))),
      \* at latitude 0, and just south of it
      Obj((KeyLat :> N(0)) @@ (KeyLon :> N(2))),
      Obj((KeyLat :> Num(0 - Tiny)) @@ (KeyLon :> N(2))),
      \* no coordinates, or one only
      Obj(<<>>),
      Obj(KeyName :> TextB),
      Obj(KeyLat :> N(1)) }

StopLists == {Arr(ss) : ss \in SeqsOf(StopRecords, 0, MaxStops)} \cup {Undefined}

\* ---- the run: lines 86 to 113 of onSubmit

StopsInit ==
    /\ stopsIn \in StopLists
    /\ dedupOut = NoOutcome
    /\ AppInit /\ ApiIdle /\ AutoIdle /\ GeoIdle /\ MapIdle /\ FrameIdle

MapAndDedup ==
    /\ dedupOut.tag = "pending"
    /\ dedupOut' = (LET pts == stopPts(stopsIn)
                    IN  IF pts.tag = "throw" THEN pts ELSE Returned(Dedup(pts.value)))
    /\ UNCHANGED <<stopsIn, frame, geoVars, mapVars, apiVars, appVars, autoVars>>

StopsNext == MapAndDedup

SpecStops == StopsInit /\ [][StopsNext]_vars

\* ---- claims

\* the records given to the deduplication
StopsGiven == stopPts(stopsIn).value

\* two records with the same value in every field
SameStop(a, b) == \A f \in DOMAIN a : SameValue(a[f], b[f])
SameStops(xs, ys) ==
    /\ Len(xs) = Len(ys)
    /\ \A i \in 1..Len(xs) : SameStop(xs[i], ys[i])

\* the records of pts whose index is in idx, in order, from the i-th on
RECURSIVE PickFrom(_, _, _)
PickFrom(pts, idx, i) ==
    IF i > Len(pts) THEN <<>>
    ELSE (IF i \in idx THEN <<pts[i]>> ELSE <<>>) \o PickFrom(pts, idx, i + 1)

\* the records of pts that no record before them is a duplicate of, in
\* order; Dup(a, b) says that b is a duplicate of a
FirstOnes(pts, Dup(_, _)) ==
    PickFrom(pts, {i \in 1..Len(pts) : ~\E j \in 1..(i - 1) : Dup(pts[j], pts[i])}, 1)

SameKey(a, b) == DedupKey(a) = DedupKey(b)

\* x rounded to 6 decimals, a tie rounded away from zero
Round6(n) == IF n < 0 THEN 0 - ((5 - n) \div 10) ELSE (n + 5) \div 10

\* two coordinates agree: both numbers, the same at 6 decimals, or both missing
CoordsAgree(x, y) ==
    \/ IsNumber(x) /\ IsNumber(y) /\ Round6(x.v) = Round6(y.v)
    \/ ~IsNumber(x) /\ ~IsNumber(y)

\* the duplicates of the specification
Duplicates(a, b) ==
    \/ /\ IsNumber(a.station_id) /\ IsNumber(b.station_id)
       /\ a.station_id.v = b.station_id.v
    \/ /\ ~IsNumber(a.station_id) /\ ~IsNumber(b.station_id)
       /\ CoordsAgree(a.lat, b.lat) /\ CoordsAgree(a.lon, b.lon)

\* C18: the output is made of the first record of each key, unmodified, in
\* the order of the input; of two records with the same station_id at
\* different places the first only is kept.
C18_FirstOccurrenceWins ==
    dedupOut.tag # "pending"
       => /\ dedupOut.tag = "return"
          /\ SameStops(dedupOut.value, FirstOnes(StopsGiven, SameKey))

\* station 1 at two places, the first of which is kept as it was
C18_Witness ==
    /\ dedupOut.tag = "return"
    /\ IsArray(stopsIn)
    /\ Len(stopsIn.v) = 2
    /\ Len(dedupOut.value) = 1
    /\ SameValue(Get(stopsIn.v[1], KeyStationId), N(1))
    /\ SameValue(Get(stopsIn.v[2], KeyStationId), N(1))
    /\ SameValue(Get(stopsIn.v[2], KeyLat), N(3))
    /\ SameValue(dedupOut.value[1].lat, N(1))
    /\ SameValue(dedupOut.value[1].name, TextA)

\* C19: deduplicating the output again gives the output, and the output is
\* no longer than the input.
C19_IdempotentNoLonger ==
    dedupOut.tag = "return"
       => /\ SameStops(Dedup(dedupOut.value), dedupOut.value)
          /\ Len(dedupOut.value) <= Len(StopsGiven)

\* three records of which two are left
C19_Witness ==
    /\ dedupOut.tag = "return"
    /\ Len(StopsGiven) = 3
    /\ Len(dedupOut.value) = 2

\* C20: a record is dropped exactly when a record before it has the same
\* numeric station_id, or when neither has a numeric station_id and their
\* latitudes and longitudes agree at 6 decimals, a missing coordinate
\* agreeing with a missing one only.
C20_DuplicatesByIdOrRoundedPlace ==
    dedupOut.tag = "return"
       => SameStops(dedupOut.value, FirstOnes(StopsGiven, Duplicates))

-----------------------------------------------------------------------------
(* The bookkeeping of the plan requests: claims C21 to C26                 *)

\* where the running onSubmit stands: the controllers of all calls issued
\* so far are aborted, the token of the call to come is minted, its
\* controller is recorded
PrevCancelled == \A k \in 1..Len(calls) : calls[k].ac \in aborted
Minted == reqIdRef = Len(calls) + 1
Recorded == abortRef = Len(calls) + 1

\* this step issues a plan request
Issues == Len(calls') = Len(calls) + 1

\* every issued request but the most recently issued one has had its
\* cancellation requested
OthersCancelled == \A k \in 1..Len(calls) : k # Len(calls) => calls[k].ac \in aborted

\* C21, as stated: a valid submit cancels the recorded controller, then
\* mints and captures the token, then records the new controller, and only
\* then issues the call; and at every moment every issued request other
\* than the most recently issued one has had its cancellation requested.
C21_StatedSubmitOrder ==
    /\ [][/\ (~Minted /\ Minted')
               => PrevCancelled /\ ~Recorded /\ reqIdRef' = reqIdRef + 1
          /\ (~Recorded /\ Recorded') => PrevCancelled /\ Minted
          /\ Issues
               => /\ PrevCancelled /\ Minted /\ Recorded
                  /\ calls'[Len(calls')].myId = reqIdRef
                  /\ calls'[Len(calls')].ac = abortRef]_vars
    /\ []OthersCancelled

\* C21, amended: a valid submit cancels the recorded controller, then
\* records the new controller, then mints and captures the token, and only
\* then issues the call; and at every moment every issued request other
\* than the most recently issued one has had its cancellation requested.
C21_SubmitOrder ==
    /\ [][/\ (~Recorded /\ Recorded') => PrevCancelled /\ ~Minted
          /\ (~Minted /\ Minted')
               => PrevCancelled /\ Recorded /\ reqIdRef' = reqIdRef + 1
          /\ Issues
               => /\ PrevCancelled /\ Minted /\ Recorded
                  /\ calls'[Len(calls')].myId = reqIdRef
                  /\ calls'[Len(calls')].ac = abortRef]_vars
    /\ []OthersCancelled

\* a second request was issued while the first was in flight: the first
\* has had its cancellation requested, the second holds token 2 and the
\* recorded controller
C21_Witness ==
    /\ frame.pc = "idle"
    /\ Len(calls) = 2
    /\ settled[1] = NoOutcome
    /\ calls[1].ac \in aborted
    /\ calls[2].myId = 2 /\ reqIdRef = 2
    /\ abortRef = calls[2].ac
    /\ calls[2].ac \notin aborted

\* the k-th plan request is in flight: issued and not yet completed
InFlight(k) == k \in 1..Len(calls) /\ settled[k] = NoOutcome

\* C22: whenever no plan request is in flight abortRef is null, and a submit
\* never aborts the controller of a request that has already completed.
C22_CancelClearedOnCompletion ==
    /\ []((\A k \in 1..Len(calls) : ~InFlight(k)) => abortRef = 0)
    /\ [][\A k \in aborted' \ aborted : InFlight(k)]_vars

\* C23: reqIdRef never decreases; a step that issues a plan request raises
\* it by exactly one, to the token that request captures; every other step
\* (a completion, a submit that fails validation, an edit of the form)
\* leaves it as it is; and no two requests hold the same token.
C23_TokenMintedOncePerRequest ==
    /\ [][/\ reqIdRef' >= reqIdRef
          /\ Issues => /\ reqIdRef' = reqIdRef + 1
                       /\ calls'[Len(calls')].myId = reqIdRef'
          /\ ~Issues => reqIdRef' = reqIdRef
          /\ (\E k \in 1..MaxReq : Settles(k)) => reqIdRef' = reqIdRef]_vars
    /\ [](\A j, k \in 1..Len(calls) : j # k => calls[j].myId # calls[k].myId)

\* three requests hold the tokens 1, 2 and 3; the first has completed, and
\* the submit run last failed validation
C23_Witness ==
    /\ Len(calls) = 3
    /\ reqIdRef = 3
    /\ \A k \in 1..3 : calls[k].myId = k
    /\ settled[1].tag # "pending"
    /\ start = <<>>
    /\ error.t = "string" /\ error.v = ValidationMessage

\* C24: loading is true in every state in which the most recently issued
\* plan request has not completed; the completion of a superseded request
\* does not set it to false while the latest one is in flight.
C24_LoadingWhileLatestInFlight ==
    (Len(calls) > 0 /\ InFlight(Len(calls))) => loading

\* this step commits the response of the j-th lookup to the suggestion list
LkCommits(j) == LkSettles(j) /\ items' # items

\* C25: a lookup response is committed to the suggestion list only if the
\* query of the lookup is the current trimmed input: once the input has
\* changed, also while the timer of the next lookup is still pending, the
\* response of the lookup in flight is not committed.
C25_CommittedLookupIsForCurrentInput ==
    [][\A j \in 1..MaxLookups : LkCommits(j) => lookups[j].q = Trim(value)]_vars

\* the form as a submit that failed validation leaves it
ShowsValidation ==
    /\ error.t = "string" /\ error.v = ValidationMessage
    /\ route = <<>> /\ stops = <<>> /\ summary.t = "null"

\* C26: after a submit that failed validation the route, the stops and the
\* summary stay empty and the validation message stays displayed until
\* onSubmit runs again: the completion of a request that was in flight at
\* the invalid submit commits nothing.
C26_InvalidSubmitStaysShown ==
    [][(ShowsValidation /\ ~OnSubmit) => ShowsValidation']_vars

====
